---- MODULE Spec2Model ----
(***************************************************************************)
(* Model of src/utils/audio-emotion-analyzer.py: one process invocation    *)
(* that checks its arguments, loads the model, loads the audio file, runs  *)
(* the inference and prints one JSON object.                               *)
(*                                                                         *)
(* Abstractions.  A waveform is represented by its number of samples.  A   *)
(* float is represented by an exact fraction [num, den].  The softmax of   *)
(* the library is computed in base 2 over small integer logits, which      *)
(* keeps the values exact.  Whether a library call raises is a choice of   *)
(* the environment.                                                        *)
(***************************************************************************)
EXTENDS Integers, Sequences, FiniteSets, TLC

VARIABLES pc, argc, file, numLabels, model_loaded, audio, sr, scores,
          emotion_result, stdout, stderr, exit_code, failure, stages

vars == <<pc, argc, file, numLabels, model_loaded, audio, sr, scores,
          emotion_result, stdout, stderr, exit_code, failure, stages>>

\* ---------------------------------------------------------------- bounds
MaxArgc == 3
MaxSamples == 1
MaxLogit == 1
MaxOut == 9

\* ------------------------------------------------------------- constants
EMOTIONS == <<"angry", "calm", "disgust", "fearful", "happy", "neutral", "sad", "surprised">>

NumLabels == 8

TargetSr == 16000

RequiredArgc == 2

ExitSuccess == 0

ExitFailure_Zero == ExitSuccess

ExitFailure == 1

NativeRates == {8000, 16000, 32000}

UsageMsg == "Usage: audio-emotion-analyzer.py <audio_file_path>"

NoticeModel == "Loading emotion recognition model..."

NoticeAudio == "Loading audio file"

NoticeAnalyze == "Analyzing emotions..."

\* ------------------------------------------------------- pure operators
RECURSIVE Pow2(_)
Pow2(k) == IF k = 0 THEN 1 ELSE 2 * Pow2(k - 1)

RECURSIVE SeqSum(_)
SeqSum(s) == IF Len(s) = 0 THEN 0 ELSE Head(s) + SeqSum(Tail(s))

Min(a, b) == IF a < b THEN a ELSE b

CeilDiv(a, b) == (a + b - 1) \div b

\* comparison of two floats, as fractions with positive denominators
FloatGT(a, b) == a.num * b.den > b.num * a.den

FloatEQ(a, b) == a.num * b.den = b.num * a.den

\* torch.nn.functional.softmax(logits, dim=-1), then probs[0].tolist()
Softmax_Unnormalised(logits) ==
    [i \in 1..Len(logits) |-> [num |-> Pow2(logits[i]), den |-> 1]]

Softmax(logits) ==
    LET w == [i \in 1..Len(logits) |-> Pow2(logits[i])]
        s == SeqSum(w)
    IN  [i \in 1..Len(logits) |-> [num |-> w[i], den |-> s]]

\* zip(a, b): stops at the shorter of the two
Zip_Strict(a, b) ==
    IF Len(a) = Len(b) THEN [i \in 1..Len(a) |-> <<a[i], b[i]>>] ELSE << >>

Zip(a, b) == [i \in 1..Min(Len(a), Len(b)) |-> <<a[i], b[i]>>]

\* a dict is the sequence of its items in insertion order
DictKeys(d) == {d[i][1] : i \in 1..Len(d)}

DictGet(d, k) == d[CHOOSE i \in 1..Len(d) : d[i][1] = k][2]

DictSet(d, k, v) ==
    IF k \in DictKeys(d)
    THEN [i \in 1..Len(d) |-> IF d[i][1] = k THEN <<k, v>> ELSE d[i]]
    ELSE Append(d, <<k, v>>)

\* {emotion: score for emotion, score in zip(...)}
RECURSIVE DictFromPairs(_)
DictFromPairs(pairs) ==
    IF Len(pairs) = 0 THEN << >>
    ELSE LET n == Len(pairs)
         IN  DictSet(DictFromPairs(SubSeq(pairs, 1, n - 1)), pairs[n][1], pairs[n][2])

\* max(items, key=lambda x: x[1]) on a non-empty list: the running best is
\* replaced only by a strictly greater item
RECURSIVE PyMaxFrom(_, _, _)
PyMaxFrom(items, i, best) ==
    IF i > Len(items) THEN best
    ELSE PyMaxFrom(items, i + 1, IF FloatGT(items[i][2], best[2]) THEN items[i] ELSE best)

RECURSIVE PyMaxLastFrom(_, _, _)
PyMaxLastFrom(items, i, best) ==
    IF i > Len(items) THEN best
    ELSE PyMaxLastFrom(items, i + 1, IF FloatGT(best[2], items[i][2]) THEN best ELSE items[i])

PyMax_Last(items) == PyMaxLastFrom(items, 2, items[1])

PyMax_First(items) == items[1]

PyMax(items) == PyMaxFrom(items, 2, items[1])

\* librosa.load(file_path, sr=target_sr, mono=True) on a readable file
LibrosaLoad_Native(f, target_sr) == [audio |-> f.native_len, sr |-> f.native_sr]

LibrosaLoad(f, target_sr) ==
    [audio |-> CeilDiv(f.native_len * target_sr, f.native_sr), sr |-> target_sr]

\* len(sys.argv) != 2
ArgcOk_AtLeast(n) == n >= RequiredArgc

ArgcOk(n) == n = RequiredArgc

\* json.dumps({"error": ...}) printed to stderr
ErrorJson_Plain(prefix, detail) == [json |-> FALSE, body |-> prefix]

ErrorJson(prefix, detail) ==
    [json |-> TRUE, body |-> [error |-> [prefix |-> prefix, detail |-> detail]]]

\* json.dumps({"error": ..., "traceback": ...}) printed to stderr
ErrorJsonTraceback(prefix, detail) ==
    [json |-> TRUE,
     body |-> [error |-> [prefix |-> prefix, detail |-> detail],
               traceback |-> "traceback"]]

\* a progress line printed to stderr
Notice(text) == [json |-> FALSE, body |-> text]

\* the object printed to stdout
ResultJson_NoDuration(emotion, n, rate) == [success |-> TRUE, emotion |-> emotion]

ResultJson(emotion, n, rate) ==
    [success |-> TRUE, emotion |-> emotion, audio_duration |-> [num |-> n, den |-> rate]]

\* the statements of main, in program order
After_Swapped(p) ==
    CASE p = "check_args" -> "notice_audio"
      [] p = "notice_audio" -> "load_audio"
      [] p = "load_audio" -> "notice_model"
      [] p = "notice_model" -> "load_model"
      [] p = "load_model" -> "notice_analyze"
      [] p = "notice_analyze" -> "analyze_emotion"
      [] p = "analyze_emotion" -> "emit"
      [] OTHER -> "exited"

After(p) ==
    CASE p = "check_args" -> "notice_model"
      [] p = "notice_model" -> "load_model"
      [] p = "load_model" -> "notice_audio"
      [] p = "notice_audio" -> "load_audio"
      [] p = "load_audio" -> "notice_analyze"
      [] p = "notice_analyze" -> "analyze_emotion"
      [] p = "analyze_emotion" -> "emit"
      [] OTHER -> "exited"

NoResult == [primary |-> "", confidence |-> [num |-> 0, den |-> 1], all |-> << >>]

\* ---------------------------------------------------------------- state
Files ==
    {[kind |-> k, native_sr |-> 0, native_len |-> 0] : k \in {"missing", "corrupt"}}
    \cup {[kind |-> "valid", native_sr |-> r, native_len |-> n] :
              r \in NativeRates, n \in 0..MaxSamples}

InitCommon ==
    /\ pc = "check_args"
    /\ argc \in 1..MaxArgc
    /\ file \in Files
    /\ model_loaded = FALSE
    /\ audio = 0
    /\ sr = 0
    /\ scores = << >>
    /\ emotion_result = NoResult
    /\ stdout = << >>
    /\ stderr = << >>
    /\ exit_code = << >>
    /\ failure = "none"
    /\ stages = << >>

\* the pretrained model has as many outputs as there are labels
Init == InitCommon /\ numLabels = NumLabels

\* a model whose output length may differ from the label count
InitMismatch == InitCommon /\ numLabels \in 0..MaxOut

\* sys.exit(1) after an error was printed
Fail(kind, entry) ==
    /\ stderr' = Append(stderr, entry)
    /\ failure' = kind
    /\ exit_code' = <<ExitFailure>>
    /\ pc' = "exited"

\* -------------------------------------------------------------- actions
CheckArgs ==
    /\ pc = "check_args"
    /\ stages' = Append(stages, "args")
    /\ IF ~ArgcOk(argc)
       THEN Fail("usage", ErrorJson(UsageMsg, ""))
       ELSE /\ pc' = After(pc)
            /\ UNCHANGED <<stderr, failure, exit_code>>
    /\ UNCHANGED <<argc, file, numLabels, model_loaded, audio, sr, scores,
                   emotion_result, stdout>>

PrintNotice ==
    /\ pc \in {"notice_model", "notice_audio", "notice_analyze"}
    /\ stderr' = Append(stderr,
                        Notice(CASE pc = "notice_model" -> NoticeModel
                                 [] pc = "notice_audio" -> NoticeAudio
                                 [] OTHER -> NoticeAnalyze))
    /\ pc' = After(pc)
    /\ UNCHANGED <<argc, file, numLabels, model_loaded, audio, sr, scores,
                   emotion_result, stdout, exit_code, failure, stages>>

LoadModel ==
    /\ pc = "load_model"
    /\ stages' = Append(stages, "model")
    /\ \E raises \in BOOLEAN :
         IF raises
         THEN /\ Fail("model", ErrorJsonTraceback("Failed to load model", "load error"))
              /\ UNCHANGED model_loaded
         ELSE /\ model_loaded' = TRUE
              /\ pc' = After(pc)
              /\ UNCHANGED <<stderr, failure, exit_code>>
    /\ UNCHANGED <<argc, file, numLabels, audio, sr, scores, emotion_result, stdout>>

LoadAudio ==
    /\ pc = "load_audio"
    /\ stages' = Append(stages, "audio")
    /\ \E decodes \in BOOLEAN :
         IF file.kind # "valid" \/ ~decodes
         THEN /\ Fail("audio", ErrorJson("Failed to load audio",
                                         IF file.kind # "valid" THEN file.kind ELSE "decode error"))
              /\ UNCHANGED <<audio, sr>>
         ELSE /\ audio' = LibrosaLoad(file, TargetSr).audio
              /\ sr' = LibrosaLoad(file, TargetSr).sr
              /\ pc' = After(pc)
              /\ UNCHANGED <<stderr, failure, exit_code>>
    /\ UNCHANGED <<argc, file, numLabels, model_loaded, scores, emotion_result, stdout>>

AnalyzeEmotion ==
    /\ pc = "analyze_emotion"
    /\ stages' = Append(stages, "inference")
    /\ \E raises \in BOOLEAN, logits \in [1..numLabels -> 0..MaxLogit] :
         IF raises
         THEN /\ Fail("inference", ErrorJson("Failed to analyze emotion", "library error"))
              /\ UNCHANGED <<scores, emotion_result>>
         ELSE LET probs == Softmax(logits)
                  emotion_scores == DictFromPairs(Zip(EMOTIONS, probs))
              IN  /\ scores' = probs
                  /\ IF Len(emotion_scores) = 0
                     THEN /\ Fail("inference",
                                  ErrorJson("Failed to analyze emotion",
                                            "max() arg is an empty sequence"))
                          /\ UNCHANGED emotion_result
                     ELSE LET primary_emotion == PyMax(emotion_scores)
                          IN  /\ emotion_result' = [primary |-> primary_emotion[1],
                                                    confidence |-> primary_emotion[2],
                                                    all |-> emotion_scores]
                              /\ pc' = After(pc)
                              /\ UNCHANGED <<stderr, failure, exit_code>>
    /\ UNCHANGED <<argc, file, numLabels, model_loaded, audio, sr, stdout>>

EmitResult ==
    /\ pc = "emit"
    /\ stages' = Append(stages, "emit")
    /\ stdout' = Append(stdout, ResultJson(emotion_result, audio, sr))
    /\ exit_code' = <<ExitSuccess>>
    /\ pc' = After(pc)
    /\ UNCHANGED <<argc, file, numLabels, model_loaded, audio, sr, scores,
                   emotion_result, stderr, failure>>

Next ==
    \/ CheckArgs
    \/ PrintNotice
    \/ LoadModel
    \/ LoadAudio
    \/ AnalyzeEmotion
    \/ EmitResult

Spec == Init /\ [][Next]_vars

SpecMismatch == InitMismatch /\ [][Next]_vars

\* ------------------------------------------------------------ properties
AllStages == <<"args", "model", "audio", "inference", "emit">>

AllNotices == <<Notice(NoticeModel), Notice(NoticeAudio), Notice(NoticeAnalyze)>>

IsPrefix(s, t) == Len(s) <= Len(t) /\ \A i \in 1..Len(s) : s[i] = t[i]

IsJson(e) == e.json

IsNotice(e) == ~e.json

JsonErrors == SelectSeq(stderr, IsJson)

Notices == SelectSeq(stderr, IsNotice)

Exited == pc = "exited"

Succeeded == Exited /\ failure = "none"

\* analyze_emotion has returned a result
AnalysisDone == pc \in {"emit", "exited"} /\ failure = "none" /\ Len(stages) >= 4

\* the library call inside analyze_emotion raised
LibraryRaised ==
    /\ failure = "inference"
    /\ Len(JsonErrors) > 0
    /\ JsonErrors[Len(JsonErrors)].body.error.detail = "library error"

Position(label) == CHOOSE i \in 1..Len(EMOTIONS) : EMOTIONS[i] = label

\* C1: the exit code is 1 exactly when one of the four failures occurred and
\* 0 exactly when every stage succeeded; a run on a missing or corrupt file
\* never exits with 0 and has a JSON error object on stderr.
C1_ExitCode ==
    /\ (exit_code = << >>) <=> ~Exited
    /\ Exited =>
         /\ Len(exit_code) = 1
         /\ exit_code[1] = 1 <=> failure \in {"usage", "model", "audio", "inference"}
         /\ exit_code[1] = 1 <=> Len(JsonErrors) > 0
         /\ exit_code[1] = 0 <=> (failure = "none" /\ stages = AllStages)
         /\ exit_code[1] \in {0, 1}
         /\ file.kind # "valid" => (exit_code[1] # 0 /\ Len(JsonErrors) > 0)

C1_Witness ==
    /\ Exited
    /\ file.kind = "missing"
    /\ failure = "audio"
    /\ exit_code = <<1>>

\* C2: at most one object is written to stdout, only after model load, audio
\* load and inference have succeeded, with exactly the keys success (true),
\* emotion and audio_duration; a failed run writes nothing to stdout.
C2_Stdout ==
    /\ Len(stdout) <= 1
    /\ Len(stdout) = 1 =>
         /\ failure = "none"
         /\ model_loaded
         /\ stages = AllStages
         /\ DOMAIN stdout[1] = {"success", "emotion", "audio_duration"}
         /\ stdout[1].success = TRUE
         /\ stdout[1].emotion = emotion_result
    /\ failure # "none" => Len(stdout) = 0

C2_Witness == Exited /\ Len(stdout) = 1 /\ Len(stderr) = 3

\* C3: with zero or more than one command-line argument the program writes
\* the usage error object to stderr, exits non-zero and writes nothing to
\* stdout.
C3_Usage ==
    argc # 2 =>
        /\ pc \in {"check_args", "exited"}
        /\ Len(stdout) = 0
        /\ Exited =>
             /\ stderr = <<[json |-> TRUE,
                            body |-> [error |-> [prefix |-> UsageMsg, detail |-> ""]]]>>
             /\ Len(exit_code) = 1
             /\ exit_code[1] # 0

C3_Witness == argc > 2 /\ Exited /\ failure = "usage" /\ Len(stderr) = 1

\* C4: emotion.primary is a label whose value in emotion.all is the maximum
\* over all entries, and emotion.confidence is exactly that value.
C4_PrimaryIsMax ==
    AnalysisDone =>
        LET r == emotion_result
        IN  /\ r.primary \in DictKeys(r.all)
            /\ r.confidence = DictGet(r.all, r.primary)
            /\ \A i \in 1..Len(r.all) : ~FloatGT(r.all[i][2], r.confidence)

C4_Witness ==
    /\ AnalysisDone
    /\ emotion_result.primary # "angry"
    /\ \E i \in 1..Len(emotion_result.all) :
          FloatGT(emotion_result.confidence, emotion_result.all[i][2])

\* C5: on a successful run emotion.all has exactly the 8 fixed labels, each
\* value lies in [0,1], the values sum to 1, and the i-th label carries the
\* i-th model score.
C5_AllScores ==
    Succeeded =>
        LET all == emotion_result.all
        IN  /\ Len(all) = 8
            /\ DictKeys(all) = {"angry", "calm", "disgust", "fearful",
                                "happy", "neutral", "sad", "surprised"}
            /\ all[1][1] = "angry" /\ all[2][1] = "calm" /\ all[3][1] = "disgust"
            /\ all[4][1] = "fearful" /\ all[5][1] = "happy" /\ all[6][1] = "neutral"
            /\ all[7][1] = "sad" /\ all[8][1] = "surprised"
            /\ Len(scores) = 8
            /\ \A i \in 1..8 :
                  /\ all[i][2] = scores[i]
                  /\ all[i][2].den > 0
                  /\ all[i][2].den = all[1][2].den
                  /\ 0 <= all[i][2].num
                  /\ all[i][2].num <= all[i][2].den
            /\ SeqSum([i \in 1..8 |-> all[i][2].num]) = all[1][2].den

C5_Witness ==
    /\ Succeeded
    /\ \E i, j \in 1..Len(emotion_result.all) :
          FloatGT(emotion_result.all[i][2], emotion_result.all[j][2])

\* C6: the stages run in the order argument check, model load, audio load,
\* inference, emission, each at most once and only after every earlier stage
\* succeeded; a failure ends the run; each progress notice is written right
\* before its stage starts; with a wrong argument count there is no model
\* load, no file access and no notice.
C6_Inv ==
    /\ IsPrefix(stages, AllStages)
    /\ IsPrefix(Notices, AllNotices)
    /\ failure # "none" => Exited
    /\ argc # 2 => (Len(stages) <= 1 /\ Len(Notices) = 0 /\ ~model_loaded)

C6_Step ==
    /\ failure # "none" => UNCHANGED vars
    /\ stages' # stages =>
         /\ Len(stages') = Len(stages) + 1
         /\ stages'[Len(stages')] \in {"model", "audio", "inference"} =>
              /\ Len(stderr) > 0
              /\ stderr[Len(stderr)] = AllNotices[Len(stages)]
              /\ Len(Notices) = Len(stages)
    /\ Len(Notices') # Len(Notices) =>
         /\ stages' = stages
         /\ Len(Notices') = Len(stages)
         /\ stderr' = Append(stderr, AllNotices[Len(stages)])

C6_StageOrder == [](C6_Inv) /\ [][C6_Step]_vars

C6_Witness == Exited /\ stages = AllStages /\ Notices = AllNotices

\* C7 as stated: every failure kind writes one error object of the shape of
\* the model-load error (error message plus traceback) and exits with 1.
C7_Original ==
    (Exited /\ failure # "none") =>
        /\ Len(JsonErrors) = 1
        /\ DOMAIN JsonErrors[1].body = {"error", "traceback"}
        /\ exit_code = <<1>>

\* C7 amended: every failure kind writes exactly one error object, as the
\* last line of stderr, with an error message, and exits with 1; only the
\* model-load error carries a traceback.
C7_ErrorShape ==
    (Exited /\ failure # "none") =>
        /\ Len(JsonErrors) = 1
        /\ stderr[Len(stderr)] = JsonErrors[1]
        /\ DOMAIN JsonErrors[1].body =
               IF failure = "model" THEN {"error", "traceback"} ELSE {"error"}
        /\ JsonErrors[1].body.error.prefix =
               CASE failure = "usage" -> UsageMsg
                 [] failure = "model" -> "Failed to load model"
                 [] failure = "audio" -> "Failed to load audio"
                 [] OTHER -> "Failed to analyze emotion"
        /\ exit_code = <<1>>

C7_Witness ==
    /\ Exited
    /\ failure = "inference"
    /\ Len(JsonErrors) = 1
    /\ DOMAIN JsonErrors[1].body = {"error"}

\* C8: the sample rate returned by load_audio is always 16000, and on a
\* successful run audio_duration is the number of samples of the loaded
\* waveform divided by 16000, which is 0 for a waveform of 0 samples.
C8_Duration ==
    /\ (Len(stages) >= 3 /\ ~(failure = "audio")) =>
         /\ sr = 16000
         /\ audio * file.native_sr >= file.native_len * 16000
         /\ (audio - 1) * file.native_sr < file.native_len * 16000
    /\ Succeeded =>
         /\ stdout[1].audio_duration.den = 16000
         /\ stdout[1].audio_duration.num = audio
         /\ audio = 0 => stdout[1].audio_duration.num = 0

C8_Witness ==
    /\ Succeeded
    /\ file.native_sr # 16000
    /\ audio > 0
    /\ stdout[1].audio_duration = [num |-> audio, den |-> 16000]

\* C9 as stated: for every output length n other than 8, analyze_emotion
\* takes no failure path of its own, pairs the first min(n, 8) labels with
\* the first min(n, 8) scores, and the run ends with the success object and
\* exit code 0.
C9_Original ==
    (numLabels # 8 /\ Len(stages) >= 4 /\ ~LibraryRaised) =>
        /\ failure = "none"
        /\ emotion_result.all =
               [i \in 1..Min(numLabels, 8) |-> <<EMOTIONS[i], scores[i]>>]
        /\ Exited => (exit_code = <<0>> /\ Len(stdout) = 1)

\* C9 amended: the same for every output length n other than 8 with n >= 1.
C9_Mismatch ==
    (numLabels # 8 /\ numLabels >= 1 /\ Len(stages) >= 4 /\ ~LibraryRaised) =>
        /\ failure = "none"
        /\ Len(scores) = numLabels
        /\ emotion_result.all =
               [i \in 1..Min(numLabels, 8) |-> <<EMOTIONS[i], scores[i]>>]
        /\ Exited => (exit_code = <<0>> /\ Len(stdout) = 1)

C9_Witness ==
    /\ numLabels > 8
    /\ Exited
    /\ exit_code = <<0>>
    /\ Len(emotion_result.all) = 8
    /\ Len(scores) > 8

\* C10: when several labels share the maximum score, emotion.primary is the
\* tied label that comes first in the EMOTIONS order.
C10_FirstTied ==
    AnalysisDone =>
        LET r == emotion_result
        IN  \A i \in 1..Len(r.all) :
               FloatEQ(r.all[i][2], r.confidence) =>
                   Position(r.primary) <= Position(r.all[i][1])

C10_Witness ==
    /\ AnalysisDone
    /\ emotion_result.primary # "angry"
    /\ \E i \in 1..Len(emotion_result.all) :
          /\ emotion_result.all[i][1] # emotion_result.primary
          /\ FloatEQ(emotion_result.all[i][2], emotion_result.confidence)

====
